---- MODULE Spec2Model ----
(***************************************************************************)
(* A model of src/bot.py: PolymarketBot.run and the methods it calls       *)
(* (get_market_details, check_time_remaining, place_ladder_orders,         *)
(* monitor_and_close, get_token_balance, close_all_positions).             *)
(*                                                                         *)
(* Units.  Prices are in cents (0.10 is 10), sizes and balances in whole   *)
(* shares, costs and values in cents, times in seconds.  The program       *)
(* computes with IEEE doubles; the model computes exactly on these grids,  *)
(* so "x" and ">=" below are the program's own multiplication and          *)
(* comparison read without rounding.                                       *)
(*                                                                         *)
(* The gateway (py_clob_client) and the Gamma HTTP API are the             *)
(* environment: every call returns a response drawn from a small set,      *)
(* or raises.                                                              *)
(***************************************************************************)
EXTENDS Integers, Sequences, FiniteSets, TLC

VARIABLES
    pc,                 \* position of run: "run", "check_time", "plan",
                        \* "place_ladder", "monitor", "returned", "raised"
    market_data,        \* run: market_data (NoMarket is None)
    token_src,          \* where run took token_id from: "none", "tokens", "clobTokenIds"
    time_threshold,     \* run: time_threshold (minutes)
    now,                \* the clock read by check_time_remaining (seconds)
    gate_evals,         \* number of calls of check_time_remaining
    gate_result,        \* "unset", "true", "false", "raised"
    prices,             \* run: prices / place_ladder_orders: prices
    size_per_step,      \* run: size_per_step / place_ladder_orders: size
    total_max_cost,     \* run: total_max_cost = monitor_and_close: initial_total_cost
    i,                  \* place_ladder_orders: index of the next price of the for loop
    order_ids,          \* place_ladder_orders: order_ids
    ladder_returned,    \* place_ladder_orders has returned order_ids
    posted,             \* every create_and_post_order call so far, in order
    monitor_state,      \* "INIT" (not started), "ACTIVE", "DONE"
    polls,              \* iterations of the while loop of monitor_and_close begun
    balance,            \* monitor_and_close: balance of the last iteration
    bal_resp,           \* last iteration: response of get_balance_allowance
    list_resp,          \* last iteration: response of get_orders (monitor)
    book_resp,          \* last iteration: response of get_order_book
    target,             \* initial_total_cost * 1.3 of the last comparison (x100), -1 if none
    liq_amounts,        \* amounts of the close_all_positions calls, in order
    close_resp,         \* close_all_positions: response of get_orders
    cancels,            \* order ids of every client.cancel call, in order
    cancel_errors,      \* order ids whose client.cancel call raised
    close_log,          \* the gateway calls of close_all_positions, in order
    gateway             \* the gateway's regime: "any", "failing" or "good"

vars == << pc, market_data, token_src, time_threshold, now, gate_evals, gate_result,
           prices, size_per_step, total_max_cost, i, order_ids, ladder_returned,
           posted, monitor_state, polls, balance, bal_resp, list_resp, book_resp,
           target, liq_amounts, close_resp, cancels, cancel_errors, close_log,
           gateway >>

-----------------------------------------------------------------------------
(* Bounds of the exploration *)

\* monitor iterations explored
MaxPolls == 3
\* longest open-orders listing the gateway returns
MaxOpen == 2
\* longest price schedule handed to place_ladder_orders in SpecLadder
MaxSchedule == 2

(* Program constants *)

\* run: size_per_step = 10
SIZE_PER_STEP == 10
\* run: time_threshold=13
DEFAULT_THRESHOLD == 13
\* monitor_and_close: initial_total_cost * 1.3, in percent
PROFIT_PERCENT == 130
\* close_all_positions: price=0.01, in cents
SELL_PRICE == 1
\* run: outcome_index=1 (0-based index into the tokens list)
OUTCOME_INDEX == 1

\* run: prices = [0.10, 0.20, 0.30], in cents
LADDER_PRICES == << 10, 20, 30 >>

-----------------------------------------------------------------------------
(* Values of the environment *)

\* a close-time field: missing, None or "" (falsy) ...
NoStr == [kind |-> "none", t |-> 0]
\* ... an ISO-8601 timestamp with an offset, t seconds on the clock ...
Iso(t) == [kind |-> "iso", t |-> t]
\* ... or text datetime.fromisoformat rejects (or a naive timestamp, whose
\* subtraction from the aware now raises TypeError)
BadStr == [kind |-> "bad", t |-> 0]

\* get_market_details returned None (or an empty dict)
NoMarket == [found |-> FALSE, tokens |-> 0, clobTokenIds |-> "absent",
             token_id |-> "none", endDate |-> NoStr, end_date_iso |-> NoStr]

\* token_id: what tokens[outcome_index].get('token_id') gives, "id" or "none"
\* (None: the entry has no such key); "none" as well when there are no tokens
Market(n, c, e, f) == [found |-> TRUE, tokens |-> n, clobTokenIds |-> c,
                       token_id |-> IF OUTCOME_INDEX < n THEN "id" ELSE "none",
                       endDate |-> e, end_date_iso |-> f]

\* market data whose tokens[outcome_index] has no 'token_id' key
MarketNoTokenId(e, f) == [Market(OUTCOME_INDEX + 1, "absent", e, f) EXCEPT !.token_id = "none"]

\* tokens: length of market_data['tokens']; clobTokenIds: absent, a JSON string
\* of two ids, or an already decoded list (not a str)
TokenShapes == { << 0, "absent" >>, << 0, "str" >>, << 0, "list" >>,
                 << 1, "absent" >>, << 2, "absent" >> }

Markets == { Market(s[1], s[2], e, f) :
               s \in TokenShapes,
               e \in { NoStr, BadStr, Iso(810) },
               f \in { NoStr, Iso(800) } }
           \cup { MarketNoTokenId(e, NoStr) : e \in { BadStr, Iso(810) } }

Thresholds == { DEFAULT_THRESHOLD, DEFAULT_THRESHOLD + 1 }
Nows == { 0, 30 }

\* get_balance_allowance: raises, answers without a 'balance' key, or a balance
BalanceResp(k, b) == [kind |-> k, balance |-> b]
BalanceResps == { BalanceResp("exception", 0), BalanceResp("no_balance", 0) }
                \cup { BalanceResp("ok", b) : b \in { 0, 26, 100 } }

\* the open-orders listings: n orders, n <= MaxOpen; ids are opaque, so the
\* k-th listed order is given the id k
OrderLists == { [k \in 1 .. n |-> k] : n \in 0 .. MaxOpen }

ListResp(k, o) == [kind |-> k, orders |-> o]
NotListed == ListResp("not_called", << >>)
ListResps == { ListResp("exception", << >>) }
             \cup { ListResp("ok", o) : o \in OrderLists }

\* get_order_book: raises, or a book whose sides are best-first price lists
BookResp(k, b, a) == [kind |-> k, bids |-> b, asks |-> a]
NoBook == BookResp("not_called", << >>, << >>)
BookResps == { BookResp("exception", << >>, << >>) }
             \cup { BookResp("ok", b, a) :
                      b \in { << >>, << 29 >>, << 30 >>, << 45, 30 >> },
                      a \in { << >>, << 50 >> } }

\* create_and_post_order: raises, returns None, a non-dict, or a dict with success
PostResps == { "success", "not_success", "none", "not_dict", "exception" }
\* the responses explored within a whole session
SessionPostResps == { "success", "not_success", "exception" }

Order(side, price, size, resp) == [side |-> side, price |-> price, size |-> size,
                                   resp |-> resp]

-----------------------------------------------------------------------------
(* run: market resolution and token selection *)

\* run: the token_id selection, lines 241-253: "tokens", "clobTokenIds",
\* "none" (return) or "raise" (IndexError of tokens[outcome_index])
TokenSelection(md) ==
    IF md.tokens > 0
    THEN IF OUTCOME_INDEX < md.tokens THEN "tokens" ELSE "raise"
    ELSE IF md.clobTokenIds = "str" THEN "clobTokenIds" ELSE "none"

\* run: the value of token_id once the selection is made (lines 248, 253)
TokenId(md) ==
    CASE TokenSelection(md) = "tokens" -> md.token_id
      [] TokenSelection(md) = "clobTokenIds" -> "id"
      [] OTHER -> "none"

RunResolve ==
    /\ pc = "run"
    /\ \E md \in Markets \cup { NoMarket } :
         /\ market_data' = md
         /\ IF ~md.found
            THEN /\ pc' = "returned"
                 /\ token_src' = token_src
            ELSE LET sel == TokenSelection(md) IN
                 /\ pc' = CASE sel = "none" -> "returned"
                            [] sel = "raise" -> "raised"
                            [] OTHER -> "check_time"
                 /\ token_src' = IF sel \in { "tokens", "clobTokenIds" } THEN sel ELSE "none"
    /\ UNCHANGED << time_threshold, now, gate_evals, gate_result, prices, size_per_step,
                    total_max_cost, i, order_ids, ladder_returned, posted,
                    monitor_state, polls, balance, bal_resp, list_resp, book_resp,
                    target, liq_amounts, close_resp, cancels, cancel_errors, close_log, gateway >>

-----------------------------------------------------------------------------
(* check_time_remaining *)

\* market_data.get('endDate') or market_data.get('end_date_iso')
CloseTimeStr(md) == IF md.endDate.kind # "none" THEN md.endDate ELSE md.end_date_iso

\* (close_time - now).total_seconds()
RemainingSeconds(md, clock) == CloseTimeStr(md).t - clock

\* the call raises: fromisoformat, or the subtraction of a naive timestamp
CheckTimeRaises(md) == CloseTimeStr(md).kind = "bad"

\* (mutant) remaining >= threshold_minutes
CheckTimeRemainingAtLeast(md, clock, threshold_minutes) ==
    /\ CloseTimeStr(md).kind = "iso"
    /\ RemainingSeconds(md, clock) >= threshold_minutes * 60

\* the value returned: remaining > threshold_minutes, remaining in minutes
CheckTimeRemaining(md, clock, threshold_minutes) ==
    /\ CloseTimeStr(md).kind = "iso"
    /\ RemainingSeconds(md, clock) > threshold_minutes * 60

\* (mutant) the return after a failed time check is missing
AfterTimeCheckNoReturn(enough) == "plan"

\* run: if not self.check_time_remaining(...): return
AfterTimeCheck(enough) == IF enough THEN "plan" ELSE "returned"

\* run, step 1
RunCheckTime ==
    /\ pc = "check_time"
    /\ gate_evals' = gate_evals + 1
    /\ IF CheckTimeRaises(market_data)
       THEN /\ gate_result' = "raised"
            /\ pc' = "raised"
       ELSE LET enough == CheckTimeRemaining(market_data, now, time_threshold) IN
            /\ gate_result' = IF enough THEN "true" ELSE "false"
            /\ pc' = AfterTimeCheck(enough)
    /\ UNCHANGED << market_data, token_src, time_threshold, now, prices, size_per_step,
                    total_max_cost, i, order_ids, ladder_returned, posted,
                    monitor_state, polls, balance, bal_resp, list_resp, book_resp,
                    target, liq_amounts, close_resp, cancels, cancel_errors, close_log, gateway >>

-----------------------------------------------------------------------------
(* run: the ladder plan, and place_ladder_orders *)

RECURSIVE Sum(_)
\* sum(prices)
Sum(s) == IF s = << >> THEN 0 ELSE Head(s) + Sum(Tail(s))

\* (mutant) the size per step is left out of the cost
TotalMaxCostUnscaled(schedule, size) == Sum(schedule)

\* run: total_max_cost = sum(prices) * size_per_step
TotalMaxCost(schedule, size) == Sum(schedule) * size

\* run, step 2, for a price schedule and a size per step: the cost, and the
\* call of place_ladder_orders(token_id, prices, size_per_step)
PlanLadder(schedule, size) ==
    /\ pc = "plan"
    /\ prices' = schedule
    /\ size_per_step' = size
    /\ total_max_cost' = TotalMaxCost(schedule, size)
    /\ i' = 1
    /\ pc' = "place_ladder"
    /\ UNCHANGED << market_data, token_src, time_threshold, now, gate_evals, gate_result,
                    order_ids, ladder_returned, posted, monitor_state, polls, balance,
                    bal_resp, list_resp, book_resp, target, liq_amounts, close_resp,
                    cancels, cancel_errors, close_log, gateway >>

\* place_ladder_orders: resp and isinstance(resp, dict) and resp.get('success')
OrderPlaced(resp) == resp = "success"

\* (mutant) an exception of a submission ends the loop: the try statement is
\* around the for loop instead of inside it
NextPriceAbortOnError(k, resp, n) == IF resp = "exception" THEN n + 1 ELSE k + 1

\* place_ladder_orders: the for loop goes on to the next price after the try
\* statement, whatever the response (n is len(prices))
NextPrice(k, resp, n) == k + 1

\* one iteration of the for loop of place_ladder_orders; the gateway's order id
\* of the k-th submission is k
PlaceLadderOrder(resps) ==
    /\ pc = "place_ladder"
    /\ i <= Len(prices)
    /\ \E resp \in resps :
         /\ posted' = Append(posted, Order("BUY", prices[i], size_per_step, resp))
         /\ order_ids' = IF OrderPlaced(resp) THEN Append(order_ids, i) ELSE order_ids
         /\ i' = NextPrice(i, resp, Len(prices))
    /\ UNCHANGED << pc, market_data, token_src, time_threshold, now, gate_evals,
                    gate_result, prices, size_per_step, total_max_cost, ladder_returned,
                    monitor_state, polls, balance, bal_resp, list_resp, book_resp,
                    target, liq_amounts, close_resp, cancels, cancel_errors, close_log, gateway >>

\* (mutant) run returns when no order was placed
AfterLadderNeedsOrder(ids) == IF ids = << >> THEN "returned" ELSE "monitor"

\* run, step 3: the call of monitor_and_close follows the call of
\* place_ladder_orders, whose result is not used
AfterLadder(ids) == "monitor"

\* place_ladder_orders returns order_ids (run discards them) and run calls
\* monitor_and_close(token_id, total_max_cost)
LadderReturn ==
    /\ pc = "place_ladder"
    /\ i > Len(prices)
    /\ ladder_returned' = TRUE
    /\ pc' = AfterLadder(order_ids)
    /\ monitor_state' = IF AfterLadder(order_ids) = "monitor" THEN "ACTIVE"
                        ELSE monitor_state
    /\ UNCHANGED << market_data, token_src, time_threshold, now, gate_evals, gate_result,
                    prices, size_per_step, total_max_cost, i, order_ids, posted, polls,
                    balance, bal_resp, list_resp, book_resp, target, liq_amounts,
                    close_resp, cancels, cancel_errors, close_log, gateway >>

\* run, step 2, with the schedule and the size run hard-codes
RunPlan == PlanLadder(LADDER_PRICES, SIZE_PER_STEP)

-----------------------------------------------------------------------------
(* get_token_balance, close_all_positions, monitor_and_close *)

\* get_token_balance: float(resp.get('balance', 0)), and 0 when the call raises
GetTokenBalance(resp) == IF resp.kind = "ok" THEN resp.balance ELSE 0

\* monitor_and_close: current_value >= initial_total_cost * 1.3, with
\* current_value = balance * float(bids[0]['price']); both sides x100
\* (mutant) the target is the cost itself, without the profit multiple
ProfitTargetBreakEven(initial_total_cost) == initial_total_cost * 100

ProfitTarget(initial_total_cost) == initial_total_cost * PROFIT_PERCENT

\* (mutant) current_value > initial_total_cost * 1.3
ProfitReachedStrict(bal, bids, initial_total_cost) ==
    bal * bids[1] * 100 > ProfitTarget(initial_total_cost)

ProfitReached(bal, bids, initial_total_cost) ==
    bal * bids[1] * 100 >= ProfitTarget(initial_total_cost)

Range(s) == { s[k] : k \in DOMAIN s }

\* close_all_positions, phase 1: the client.cancel calls made for the listing
\* `orders` when cancel raises for the ids in `failing`: the for loop is inside
\* one try statement, so the first cancel that raises ends the loop
CancelCalls(orders, failing) ==
    LET bad == { k \in DOMAIN orders : orders[k] \in failing } IN
    IF bad = {} THEN orders
    ELSE SubSeq(orders, 1, CHOOSE k \in bad : \A m \in bad : k <= m)

\* (mutant) the sell order is submitted whatever the amount
SellOrdersUnguarded(amount, resp) == << Order("SELL", SELL_PRICE, amount, resp) >>

\* close_all_positions, phase 2: the sell order, submitted if amount > 0
SellOrders(amount, resp) ==
    IF amount > 0 THEN << Order("SELL", SELL_PRICE, amount, resp) >> ELSE << >>

\* the responses to the sell order explored within a whole session
SessionSellResps == { "success", "exception" }

\* close_all_positions(token_id, amount), the sell order answered from
\* sell_resps: never raises
CloseAllPositions(amount, sell_resps) ==
    /\ liq_amounts' = Append(liq_amounts, amount)
    /\ \E lr \in ListResps : \E failing \in SUBSET Range(lr.orders) :
       \E sr \in sell_resps :
         LET calls == IF lr.kind = "ok" THEN CancelCalls(lr.orders, failing) ELSE << >>
             sells == SellOrders(amount, sr)
         IN
         /\ close_resp' = lr
         /\ cancels' = cancels \o calls
         /\ cancel_errors' = cancel_errors \cup
                               { calls[k] : k \in { m \in DOMAIN calls : calls[m] \in failing } }
         /\ posted' = posted \o sells
         /\ close_log' = close_log \o << "get_orders" >>
                            \o [k \in DOMAIN calls |-> "cancel"]
                            \o [k \in DOMAIN sells |-> "create_and_post_order"]

\* (mutant) "if open_orders" for "if not open_orders"
ZeroBalanceBranchInverted(lr) ==
    IF lr.kind # "ok" THEN "error"
    ELSE IF lr.orders # << >> THEN "break" ELSE "wait"

\* (mutant) the monitor ends whenever the balance is <= 0 and the listing came
ZeroBalanceBranchAlwaysBreak(lr) == IF lr.kind # "ok" THEN "error" ELSE "break"

\* monitor_and_close, the branch taken when balance <= 0 (lines 189-198):
\* "error" (get_orders raised: the except clause), "break" or "wait"
ZeroBalanceBranch(lr) ==
    IF lr.kind # "ok" THEN "error"
    ELSE IF lr.orders = << >> THEN "break" ELSE "wait"

\* (mutant) the asks are not looked at
BookBranchBidsOnly(bal, ob, initial_total_cost) ==
    IF ob.kind # "ok" THEN "error"
    ELSE IF ob.bids = << >> THEN "no_bids"
    ELSE IF ProfitReached(bal, ob.bids, initial_total_cost) THEN "close" ELSE "hold"

\* monitor_and_close, the branch taken when balance > 0 (lines 200-226):
\* "error" (get_order_book raised), "no_asks", "no_bids", "close" or "hold"
BookBranch(bal, ob, initial_total_cost) ==
    IF ob.kind # "ok" THEN "error"
    ELSE IF ob.asks = << >> THEN "no_asks"
    ELSE IF ob.bids = << >> THEN "no_bids"
    ELSE IF ProfitReached(bal, ob.bids, initial_total_cost) THEN "close" ELSE "hold"

\* (mutant) the break after close_all_positions is missing
LoopExitNoBreakAfterClose(branch) == branch = "break"

\* monitor_and_close: the branches that end with break (lines 195 and 224); every
\* other one sleeps and starts the next iteration
LoopExit(branch) == branch \in { "break", "close" }

\* the responses of one iteration the gateway's regime allows; lr or ob is the
\* response of the call not made (NotListed, NoBook) when the iteration does not
\* make it.  "failing": a gateway call of the iteration raises, the balance
\* query, the open-orders listing or the order-book read.  "good": every call succeeds, and the balance is <= 0 with
\* no open order, or it is > 0 with both sides in the book and
\* balance x best bid >= initial_total_cost x 1.3.
GatewayAllows(regime, br, lr, ob, initial_total_cost) ==
    CASE regime = "failing" ->
            br.kind = "exception" \/ lr.kind = "exception" \/ ob.kind = "exception"
      [] regime = "good" ->
            /\ br.kind = "ok"
            /\ \/ br.balance <= 0 /\ lr = ListResp("ok", << >>)
               \/ /\ br.balance > 0
                  /\ ob.kind = "ok"
                  /\ ob.bids # << >>
                  /\ ob.asks # << >>
                  /\ br.balance * ob.bids[1] * 100 >= initial_total_cost * PROFIT_PERCENT
      [] OTHER -> TRUE

\* one iteration of the while loop of monitor_and_close
MonitorIteration ==
    /\ pc = "monitor"
    /\ polls < MaxPolls
    /\ polls' = polls + 1
    /\ \E br \in BalanceResps :
         LET bal == GetTokenBalance(br) IN
         /\ bal_resp' = br
         /\ balance' = bal
         /\ \/ /\ bal <= 0
               /\ \E lr \in ListResps :
                    /\ GatewayAllows(gateway, br, lr, NoBook, total_max_cost)
                    /\ list_resp' = lr
                    /\ IF LoopExit(ZeroBalanceBranch(lr))
                       THEN /\ pc' = "returned"
                            /\ monitor_state' = "DONE"
                       ELSE UNCHANGED << pc, monitor_state >>
               /\ book_resp' = NoBook
               /\ UNCHANGED << target, liq_amounts, close_resp, cancels, cancel_errors,
                               close_log, posted >>
            \/ /\ bal > 0
               /\ list_resp' = NotListed
               /\ \E ob \in BookResps :
                    LET branch == BookBranch(bal, ob, total_max_cost) IN
                    /\ GatewayAllows(gateway, br, NotListed, ob, total_max_cost)
                    /\ book_resp' = ob
                    /\ target' = IF branch \in { "close", "hold" }
                                 THEN ProfitTarget(total_max_cost) ELSE target
                    /\ IF branch = "close"
                       THEN CloseAllPositions(bal, SessionSellResps)
                       ELSE UNCHANGED << liq_amounts, close_resp, cancels, cancel_errors,
                                         close_log, posted >>
                    /\ IF LoopExit(branch)
                       THEN /\ pc' = "returned"
                            /\ monitor_state' = "DONE"
                       ELSE UNCHANGED << pc, monitor_state >>
    /\ UNCHANGED << market_data, token_src, time_threshold, now, gate_evals, gate_result,
                    prices, size_per_step, total_max_cost, i, order_ids, ladder_returned,
                    gateway >>

-----------------------------------------------------------------------------
(* The session: run(market_slug, time_threshold) *)

Init ==
    /\ pc = "run"
    /\ market_data = NoMarket
    /\ token_src = "none"
    /\ time_threshold \in Thresholds
    /\ now \in Nows
    /\ gate_evals = 0
    /\ gate_result = "unset"
    /\ prices = << >>
    /\ size_per_step = 0
    /\ total_max_cost = 0
    /\ i = 1
    /\ order_ids = << >>
    /\ ladder_returned = FALSE
    /\ posted = << >>
    /\ monitor_state = "INIT"
    /\ polls = 0
    /\ balance = 0
    /\ bal_resp = BalanceResp("not_called", 0)
    /\ list_resp = NotListed
    /\ book_resp = NoBook
    /\ target = -1
    /\ liq_amounts = << >>
    /\ close_resp = NotListed
    /\ cancels = << >>
    /\ cancel_errors = {}
    /\ close_log = << >>
    /\ gateway = "any"

Next ==
    \/ RunResolve
    \/ RunCheckTime
    \/ RunPlan
    \/ PlaceLadderOrder(SessionPostResps)
    \/ LadderReturn
    \/ MonitorIteration

Spec == Init /\ [][Next]_vars

-----------------------------------------------------------------------------
(* place_ladder_orders and the cost run computes, for any schedule and size *)

\* prices handed to place_ladder_orders, in cents: 0 and 100 (1.00) are not prices
\* of the open interval (0, 1)
SchedulePrices == { 0, 10, 30, 100 }
Schedules == UNION { [1 .. n -> SchedulePrices] : n \in 0 .. MaxSchedule }
Sizes == { 0, 3, 10 }

InitLadder ==
    /\ pc = "plan"
    /\ market_data = Market(2, "absent", Iso(810), NoStr)
    /\ token_src = "tokens"
    /\ time_threshold = DEFAULT_THRESHOLD
    /\ now = 0
    /\ gate_evals = 1
    /\ gate_result = "true"
    /\ prices = << >>
    /\ size_per_step = 0
    /\ total_max_cost = 0
    /\ i = 1
    /\ order_ids = << >>
    /\ ladder_returned = FALSE
    /\ posted = << >>
    /\ monitor_state = "INIT"
    /\ polls = 0
    /\ balance = 0
    /\ bal_resp = BalanceResp("not_called", 0)
    /\ list_resp = NotListed
    /\ book_resp = NoBook
    /\ target = -1
    /\ liq_amounts = << >>
    /\ close_resp = NotListed
    /\ cancels = << >>
    /\ cancel_errors = {}
    /\ close_log = << >>
    /\ gateway = "any"

NextLadder ==
    \/ \E schedule \in Schedules, size \in Sizes : PlanLadder(schedule, size)
    \/ PlaceLadderOrder(PostResps)
    \/ LadderReturn

SpecLadder == InitLadder /\ [][NextLadder]_vars

-----------------------------------------------------------------------------
(* check_time_remaining, for any market data, clock and threshold *)

GateTimes == { NoStr, BadStr, Iso(780), Iso(781), Iso(840) }
GateFallbackTimes == { NoStr, BadStr, Iso(600), Iso(1200) }
GateNows == { 0, 60 }
GateThresholds == { 0, DEFAULT_THRESHOLD, DEFAULT_THRESHOLD + 1 }

InitGate ==
    /\ pc = "check_time"
    /\ market_data \in { Market(2, "absent", e, f) : e \in GateTimes, f \in GateFallbackTimes }
    /\ token_src = "tokens"
    /\ time_threshold \in GateThresholds
    /\ now \in GateNows
    /\ gate_evals = 0
    /\ gate_result = "unset"
    /\ prices = << >>
    /\ size_per_step = 0
    /\ total_max_cost = 0
    /\ i = 1
    /\ order_ids = << >>
    /\ ladder_returned = FALSE
    /\ posted = << >>
    /\ monitor_state = "INIT"
    /\ polls = 0
    /\ balance = 0
    /\ bal_resp = BalanceResp("not_called", 0)
    /\ list_resp = NotListed
    /\ book_resp = NoBook
    /\ target = -1
    /\ liq_amounts = << >>
    /\ close_resp = NotListed
    /\ cancels = << >>
    /\ cancel_errors = {}
    /\ close_log = << >>
    /\ gateway = "any"

NextGate == RunCheckTime

SpecGate == InitGate /\ [][NextGate]_vars

-----------------------------------------------------------------------------
(* close_all_positions, called with any amount *)

\* no order posted, no monitor iteration and no liquidation yet
NothingDoneYet ==
    /\ i = 1
    /\ order_ids = << >>
    /\ ladder_returned = FALSE
    /\ posted = << >>
    /\ polls = 0
    /\ balance = 0
    /\ bal_resp = BalanceResp("not_called", 0)
    /\ list_resp = NotListed
    /\ book_resp = NoBook
    /\ target = -1
    /\ liq_amounts = << >>
    /\ close_resp = NotListed
    /\ cancels = << >>
    /\ cancel_errors = {}
    /\ close_log = << >>

\* the amounts close_all_positions is called with
Amounts == { -1, 0, 1, 26, 100 }

\* a call of close_all_positions(token_id, amount)
CloseCall ==
    /\ pc = "close_all_positions"
    /\ \E amount \in Amounts : CloseAllPositions(amount, PostResps)
    /\ pc' = "returned"
    /\ UNCHANGED << market_data, token_src, time_threshold, now, gate_evals, gate_result,
                    prices, size_per_step, total_max_cost, i, order_ids, ladder_returned,
                    monitor_state, polls, balance, bal_resp, list_resp, book_resp,
                    target, gateway >>

InitClose ==
    /\ pc = "close_all_positions"
    /\ market_data = NoMarket
    /\ token_src = "none"
    /\ time_threshold = DEFAULT_THRESHOLD
    /\ now = 0
    /\ gate_evals = 0
    /\ gate_result = "unset"
    /\ prices = << >>
    /\ size_per_step = 0
    /\ total_max_cost = 0
    /\ monitor_state = "INIT"
    /\ gateway = "any"
    /\ NothingDoneYet

NextClose == CloseCall

SpecClose == InitClose /\ [][NextClose]_vars

-----------------------------------------------------------------------------
(* Properties *)

RECURSIVE SumFirst(_, _)
\* s[1] + ... + s[n]
SumFirst(s, n) == IF n = 0 THEN 0 ELSE s[n] + SumFirst(s, n - 1)

RECURSIVE SuccessIdsUpTo(_, _)
\* the ids of the submissions among log[1..n] the gateway answered with success
SuccessIdsUpTo(log, n) ==
    IF n = 0 THEN << >>
    ELSE IF log[n].resp = "success" THEN Append(SuccessIdsUpTo(log, n - 1), n)
    ELSE SuccessIdsUpTo(log, n - 1)

Sells == { k \in DOMAIN posted : posted[k].side = "SELL" }

\* C1: an iteration of the monitor in which a gateway call (balance query,
\* open-orders listing, order-book read) raised leaves the monitor ACTIVE.
C1_FailedCallKeepsMonitorActive ==
    ( /\ polls > 0
      /\ \/ bal_resp.kind = "exception"
         \/ list_resp.kind = "exception"
         \/ book_resp.kind = "exception" )
    => monitor_state = "ACTIVE"

\* C2: close_all_positions calls cancel for every order of the listing it got,
\* whatever cancels raise, and then submits the sell order.
C2_EveryListedOrderCancelled ==
    (liq_amounts # << >> /\ close_resp.kind = "ok")
    => /\ cancels = close_resp.orders
       /\ Sells # {}

\* the case of C3: the last iteration sampled a positive balance and a book with
\* both sides, and balance x best bid >= maxCost x 1.3
C3_Case ==
    /\ polls > 0
    /\ balance > 0
    /\ book_resp.kind = "ok"
    /\ book_resp.bids # << >>
    /\ book_resp.asks # << >>
    /\ balance * book_resp.bids[1] * 100 >= total_max_cost * PROFIT_PERCENT

\* C3: in the case above the monitor has called close_all_positions exactly once,
\* with the balance of that iteration, and is DONE; once DONE there is no further
\* poll, cancel, order submission or liquidation.
C3_LiquidatesOnceThenDone ==
    /\ [](C3_Case => /\ liq_amounts = << balance >>
                     /\ monitor_state = "DONE"
                     /\ pc = "returned")
    /\ [][monitor_state = "DONE"
          => UNCHANGED << polls, cancels, posted, liq_amounts >>]_vars

C3_Witness ==
    /\ C3_Case
    /\ polls >= 2
    /\ balance = 100
    /\ book_resp.bids[1] = 45
    /\ total_max_cost = 600
    /\ monitor_state = "DONE"

\* C4: an iteration that samples a balance <= 0 and gets an empty open-orders
\* listing ends the monitor at once, with no liquidation, cancel or sell order;
\* when that is the first iteration, the monitor ran exactly one iteration.
C4_ZeroBalanceNoOrdersEndsMonitor ==
    ( /\ polls > 0
      /\ balance <= 0
      /\ list_resp.kind = "ok"
      /\ list_resp.orders = << >> )
    => /\ monitor_state = "DONE"
       /\ pc = "returned"
       /\ liq_amounts = << >>
       /\ close_resp.kind = "not_called"
       /\ cancels = << >>
       /\ Sells = {}

C4_Witness ==
    /\ polls = 1
    /\ bal_resp = BalanceResp("ok", 0)
    /\ list_resp = ListResp("ok", << >>)
    /\ monitor_state = "DONE"

\* C5: place_ladder_orders submits the prices of the schedule once each, in order,
\* whatever the earlier responses; it never raises; it returns the ids of exactly
\* the submissions answered with success (N-1 ids when exactly one of N failed).
C5_EveryPriceSubmittedOnce ==
    /\ pc \in { "plan", "place_ladder", "monitor" }
    /\ Len(posted) = i - 1
    /\ Len(posted) <= Len(prices)
    /\ \A k \in DOMAIN posted :
         /\ posted[k].side = "BUY"
         /\ posted[k].price = prices[k]
         /\ posted[k].size = size_per_step
    /\ ladder_returned =>
         /\ Len(posted) = Len(prices)
         /\ order_ids = SuccessIdsUpTo(posted, Len(posted))
         /\ Cardinality({ k \in DOMAIN posted : posted[k].resp # "success" }) = 1
              => Len(order_ids) = Len(prices) - 1

C5_Witness ==
    /\ ladder_returned
    /\ prices = << 10, 30 >>
    /\ posted[1].resp = "exception"
    /\ posted[2].resp = "success"
    /\ order_ids = << 2 >>

\* C6: no order is submitted for a schedule with a price <= 0 or >= 1, or for a
\* non-positive size per step.
C6_InvalidPlanNeverSubmitted ==
    ( /\ pc # "plan"
      /\ \/ \E k \in DOMAIN prices : prices[k] <= 0 \/ prices[k] >= 100
         \/ size_per_step <= 0 )
    => posted = << >>

\* C7: for every schedule P and size s, the cost handed to the monitor is
\* s x sum(P), and the orders of the ladder are len(P) BUY orders of size s, the
\* k-th at the price P[k].
C7_LadderAndMaxCost ==
    /\ pc # "plan" => total_max_cost = size_per_step * SumFirst(prices, Len(prices))
    /\ ladder_returned =>
         posted = [k \in 1 .. Len(prices) |->
                     Order("BUY", prices[k], size_per_step, posted[k].resp)]

C7_Witness ==
    /\ monitor_state = "ACTIVE"
    /\ prices = << 10, 30 >>
    /\ size_per_step = 3
    /\ total_max_cost = 120
    /\ Len(posted) = 2

\* C8: check_time_remaining returns true exactly when a close time is there
\* (endDate, else end_date_iso) and close time - now is more than the threshold;
\* with the remaining time equal to the threshold, or with no close time in
\* either field, it returns false.
C8_TimeGate ==
    LET e == market_data.endDate
        f == market_data.end_date_iso
        present == e.kind = "iso" \/ (e.kind = "none" /\ f.kind = "iso")
        close == IF e.kind = "iso" THEN e.t ELSE f.t
    IN  gate_evals > 0 =>
          /\ gate_result = "true" <=> (present /\ close - now > time_threshold * 60)
          /\ (present /\ close - now = time_threshold * 60) => gate_result = "false"
          /\ (e.kind = "none" /\ f.kind = "none") => gate_result = "false"

C8_Witness ==
    /\ gate_evals = 1
    /\ market_data.endDate = NoStr
    /\ market_data.end_date_iso = Iso(1200)
    /\ now = 0
    /\ time_threshold = DEFAULT_THRESHOLD
    /\ gate_result = "true"

\* C9: check_time_remaining is called at most once in a session, and exactly once
\* before any order is submitted or the monitor starts; when it returns false the
\* session ends with no order and no monitor; it is not called while monitoring.
C9_GateOnceBeforeOrders ==
    /\ [](/\ gate_evals <= 1
          /\ (posted # << >> \/ monitor_state # "INIT" \/ pc \in { "plan", "place_ladder", "monitor" })
               => (gate_evals = 1 /\ gate_result = "true")
          /\ gate_result = "false"
               => (posted = << >> /\ monitor_state = "INIT" /\ pc = "returned"))
    /\ [][(monitor_state # "INIT" \/ posted # << >>) => gate_evals' = gate_evals]_vars

C9_Witness ==
    /\ gate_evals = 1
    /\ gate_result = "true"
    /\ monitor_state = "ACTIVE"
    /\ polls >= 2
    /\ Len(posted) = 3

\* C10: the target of every comparison of the monitor is 1.3 x the cost of the
\* full schedule, whatever the submissions, balances and books were; the cost and
\* the target do not change while monitoring.
C10_TargetFixed ==
    /\ [](monitor_state # "INIT" =>
            /\ total_max_cost = size_per_step * SumFirst(prices, Len(prices))
            /\ target \in { -1, PROFIT_PERCENT * size_per_step * SumFirst(prices, Len(prices)) })
    /\ [][monitor_state # "INIT" =>
            /\ total_max_cost' = total_max_cost
            /\ target # -1 => target' = target]_vars

C10_Witness ==
    /\ target = 78000
    /\ polls >= 2
    /\ order_ids = << 2 >>
    /\ balance = 26
    /\ book_resp.kind = "ok"
    /\ book_resp.bids = << 29 >>
    /\ monitor_state = "ACTIVE"

\* C11: a call of close_all_positions submits one SELL order when amount > 0 and
\* none otherwise; its size is the amount; it is the last gateway call of the
\* invocation, after the listing and the cancels, whatever they did (a listing
\* that raised included); a sell that raised is not submitted again.
C11_OneSellForPositiveAmount ==
    liq_amounts # << >> =>
      LET amount == liq_amounts[1]
          sell_calls == { k \in DOMAIN close_log : close_log[k] = "create_and_post_order" }
      IN
      /\ Len(liq_amounts) = 1
      /\ Cardinality(Sells) = IF amount > 0 THEN 1 ELSE 0
      /\ \A k \in Sells : posted[k].size = amount /\ posted[k].price = SELL_PRICE
      /\ Cardinality(sell_calls) = Cardinality(Sells)
      /\ \A k \in sell_calls : k = Len(close_log)
      /\ close_log[1] = "get_orders"
      /\ Len(close_log) = 1 + Len(cancels) + Cardinality(Sells)

C11_Witness ==
    /\ liq_amounts = << 26 >>
    /\ close_resp.kind = "exception"
    /\ Cardinality(Sells) = 1
    /\ posted[1].resp = "exception"
    /\ close_log = << "get_orders", "create_and_post_order" >>

\* C12: the monitor calls close_all_positions only in an iteration that sampled
\* a balance > 0 and a book with a bid and an ask with balance x best bid >=
\* maxCost x 1.3; after an iteration with a balance > 0 and a book with a side
\* missing or a value below the target it is ACTIVE, in the loop, and nothing was
\* cancelled or sold, also when the bids alone would meet the target.
C12_LiquidationOnlyAtTarget ==
    /\ liq_amounts # << >> => C3_Case
    /\ (polls > 0 /\ balance > 0 /\ book_resp.kind = "ok" /\ ~C3_Case)
         => /\ monitor_state = "ACTIVE"
            /\ pc = "monitor"
            /\ liq_amounts = << >>
            /\ close_log = << >>
            /\ cancels = << >>
            /\ Sells = {}

C12_Witness ==
    /\ polls > 0
    /\ balance = 100
    /\ book_resp = BookResp("ok", << 45, 30 >>, << >>)
    /\ monitor_state = "ACTIVE"
    /\ liq_amounts = << >>

\* the case of C13: the last iteration sampled a balance <= 0 and got a listing
\* with at least one open order
C13_Case ==
    /\ polls > 0
    /\ balance <= 0
    /\ list_resp.kind = "ok"
    /\ list_resp.orders # << >>

\* C13: an iteration with a balance <= 0 and an order still open leaves the
\* monitor ACTIVE, in the loop, without a cancel, a liquidation or an order
\* submission; so a monitor that is DONE did not end in such an iteration.
C13_WaitsForFills ==
    /\ [](C13_Case => /\ monitor_state = "ACTIVE"
                      /\ pc = "monitor"
                      /\ cancels = << >>
                      /\ close_log = << >>
                      /\ liq_amounts = << >>
                      /\ posted = [k \in 1 .. Len(prices) |->
                                     Order("BUY", prices[k], size_per_step, posted[k].resp)])
    /\ [][(polls' # polls /\ C13_Case')
            => UNCHANGED << posted, cancels, close_log, liq_amounts, monitor_state, pc >>]_vars

C13_Witness ==
    /\ C13_Case
    /\ polls >= 2
    /\ bal_resp = BalanceResp("ok", 0)
    /\ list_resp.orders = << 1, 2 >>
    /\ monitor_state = "ACTIVE"

\* the last iteration ended the loop by its own responses: balance <= 0 with an
\* empty listing, or the case of C3
C14_ExitByResponses ==
    \/ balance <= 0 /\ list_resp.kind = "ok" /\ list_resp.orders = << >>
    \/ C3_Case

\* C14: once place_ladder_orders has returned the monitor has been started,
\* whatever ids it returned, none included; an iteration of the monitor leaves
\* the ids alone and ends the monitor exactly when the responses of that
\* iteration say so, whatever the ids are.
C14_MonitorAlwaysStarts ==
    /\ [](ladder_returned => monitor_state \in { "ACTIVE", "DONE" })
    /\ [][polls' # polls
            => /\ order_ids' = order_ids
               /\ monitor_state' = "DONE" <=> C14_ExitByResponses']_vars

C14_Witness ==
    /\ ladder_returned
    /\ order_ids = << >>
    /\ Len(posted) = 3
    /\ monitor_state = "ACTIVE"
    /\ polls >= 1

\* C15: when get_market_details returned nothing, or the market data gives no
\* outcome token (no tokens and no clobTokenIds string, fewer tokens than the
\* outcome index needs, or a token entry without a token_id), run is over:
\* check_time_remaining was not called, no order was submitted or cancelled and
\* the monitor did not start.
C15_NoMarketNoSession ==
    (pc # "run" /\ TokenId(market_data) = "none")
    => /\ pc \in { "returned", "raised" }
       /\ gate_evals = 0
       /\ gate_result = "unset"
       /\ posted = << >>
       /\ cancels = << >>
       /\ close_log = << >>
       /\ monitor_state = "INIT"
       /\ polls = 0

Buys == { k \in DOMAIN posted : posted[k].side = "BUY" }

\* C16: BUY orders are submitted only after the time check returned true and
\* before the monitor starts; the monitor polls only after place_ladder_orders
\* returned; cancels and the one SELL order of a session are made in the
\* iteration that ends the monitor, and a DONE monitor makes no gateway call.
C16_PhasesInOrder ==
    /\ [](/\ Buys # {} => (gate_evals = 1 /\ gate_result = "true")
          /\ polls > 0 => ladder_returned
          /\ \A b \in Buys, a \in Sells : b < a
          /\ Cardinality(Sells) <= 1
          /\ (Sells # {} \/ cancels # << >> \/ close_log # << >>) => monitor_state = "DONE")
    /\ [][/\ monitor_state # "INIT" =>
               \A k \in DOMAIN posted' : k > Len(posted) => posted'[k].side = "SELL"
          /\ polls' # polls => (monitor_state = "ACTIVE" /\ polls' = polls + 1)
          /\ (posted' # posted /\ monitor_state # "INIT") \/ cancels' # cancels
               \/ close_log' # close_log
               => (polls' = polls + 1 /\ monitor_state' = "DONE")
          /\ monitor_state = "DONE" =>
               UNCHANGED << posted, cancels, close_log, polls, bal_resp, list_resp,
                            book_resp >>]_vars

C16_Witness ==
    /\ monitor_state = "DONE"
    /\ polls >= 2
    /\ Len(posted) = 4
    /\ Cardinality(Buys) = 3
    /\ Sells = { 4 }
    /\ cancels = << 1, 2 >>

-----------------------------------------------------------------------------
(* monitor_and_close on its own, against a gateway that at some moment starts to
   fail for good or to succeed for good *)

\* the gateway enters a regime and stays in it
GatewayChange ==
    /\ pc = "monitor"
    /\ gateway = "any"
    /\ gateway' \in { "failing", "good" }
    /\ UNCHANGED << pc, market_data, token_src, time_threshold, now, gate_evals,
                    gate_result, prices, size_per_step, total_max_cost, i, order_ids,
                    ladder_returned, posted, monitor_state, polls, balance, bal_resp,
                    list_resp, book_resp, target, liq_amounts, close_resp, cancels,
                    cancel_errors, close_log >>

\* run at line 271, the ladder of the hard-coded schedule submitted, every order
\* placed or every submission failed
InitLive ==
    /\ pc = "monitor"
    /\ market_data = Market(2, "absent", Iso(810), NoStr)
    /\ token_src = "tokens"
    /\ time_threshold = DEFAULT_THRESHOLD
    /\ now = 0
    /\ gate_evals = 1
    /\ gate_result = "true"
    /\ prices = LADDER_PRICES
    /\ size_per_step = SIZE_PER_STEP
    /\ total_max_cost = TotalMaxCost(LADDER_PRICES, SIZE_PER_STEP)
    /\ i = Len(LADDER_PRICES) + 1
    /\ \E resp \in { "success", "exception" } :
         posted = [k \in DOMAIN LADDER_PRICES |->
                     Order("BUY", LADDER_PRICES[k], SIZE_PER_STEP, resp)]
    /\ order_ids = SuccessIdsUpTo(posted, Len(posted))
    /\ ladder_returned = TRUE
    /\ monitor_state = "ACTIVE"
    /\ polls = 0
    /\ balance = 0
    /\ bal_resp = BalanceResp("not_called", 0)
    /\ list_resp = NotListed
    /\ book_resp = NoBook
    /\ target = -1
    /\ liq_amounts = << >>
    /\ close_resp = NotListed
    /\ cancels = << >>
    /\ cancel_errors = {}
    /\ close_log = << >>
    /\ gateway = "any"

NextLive ==
    \/ MonitorIteration
    \/ GatewayChange

\* the loop of monitor_and_close goes on whenever it can: the process is not
\* stopped from outside, and every sleep and every call returns or raises
SpecLive == InitLive /\ [][NextLive]_vars /\ WF_vars(MonitorIteration)

\* C17: while a gateway call raises in every iteration, no iteration ends the
\* monitor and it goes on polling, up to every number of polls within MaxPolls;
\* and once every call succeeds and every poll finds balance <= 0 with no open
\* orders, or balance > 0 with both book sides and balance x best bid >=
\* maxCost x 1.3, a monitor that goes on running becomes DONE.
C17_NoRetryBound ==
    /\ [][(gateway = "failing" /\ polls' # polls) => monitor_state' = "ACTIVE"]_vars
    /\ (gateway = "failing" /\ monitor_state = "ACTIVE")
         ~> (polls = MaxPolls /\ monitor_state = "ACTIVE")
    /\ (gateway = "good" /\ monitor_state = "ACTIVE" /\ polls < MaxPolls)
         ~> (monitor_state = "DONE")

====
